---- MODULE Spec2Model ----
(***************************************************************************)
(* Model of the CoinMarketCap scraper (coin_marketcap_sync.py and          *)
(* coin_marketcap_async.py): the record sink (create_db / insert_coin),    *)
(* the scroll loop, the row extraction with its normalisation, and the     *)
(* page orchestration (process_page / main) of both variants.              *)
(***************************************************************************)
EXTENDS Integers, Sequences, FiniteSets, TLC

VARIABLES
    variant,       \* "sync" (coin_marketcap_sync.py) or "async" (coin_marketcap_async.py)
    \* ---- record sink ----
    schema,        \* TRUE once create_db has created the coins table
    durable,       \* committed rows of the coins table, in rowid order
    pending,       \* rows upserted on the open connection and not yet committed
    latest,        \* history: rank -> <<the coin of the most recent insert_coin for that rank>>
    \* ---- page orchestration ----
    mainpc,        \* position of main()
    batch_index,   \* main's loop variable (0-based index of the first URL of the batch)
    tpc,           \* position of each page's process_page task
    sent,          \* per page: number of records handed to insert_coin so far
    session,       \* per page: "none", "open" or "released" browser
    releases,      \* per page: how many times the browser was released
    cause,         \* per page: why the task failed ("none" while it has not)
    \* ---- scroll loop ----
    spc,           \* "idle", "loop" (at the while test) or "done"
    max_count,     \* the stall threshold
    count,         \* the no-growth counter
    old_height,    \* height read before the scroll burst
    new_height,    \* height read after the pause
    obs,           \* history: <<old_height, new_height>> comparison of every iteration so far
    settled,       \* the page has stopped changing its height for good
    \* ---- row extraction and normalisation ----
    epc,           \* "idle", "rows" (at the head of the row loop), "row_done", "end" or "aborted"
    headers,       \* header labels of the page
    rows_left,     \* rows of the page still to be processed
    row,           \* <<the row element processed by the latest iteration>>
    coin_info,     \* the raw row built by the latest iteration
    yielded        \* the records emitted by the latest iteration (none or one)

sinkVars    == <<schema, durable, pending, latest>>
orchVars    == <<mainpc, batch_index, tpc, sent, session, releases, cause>>
scrollVars  == <<spc, max_count, count, old_height, new_height, obs, settled>>
extractVars == <<epc, headers, rows_left, row, coin_info, yielded>>
vars == <<variant, sinkVars, orchVars, scrollVars, extractVars>>

Variants == {"sync", "async"}
None == "None"

\* ------------------------------------------------------------------------
\* Bounds
\* upserts per run of the sink specification
MaxInserts == 4
\* ranks 1..MaxRank are upserted in the sink specification
MaxRank == 2
\* URLs handed to main; the source lists two (one async batch), four give
\* the async variant a second batch
NumUrls == 4
\* records a page can yield
MaxRecs == 2

\* ------------------------------------------------------------------------
\* Canonical record

Fields == {"rank", "logo", "name", "symbol", "price", "change_1h", "change_24h",
           "change_7d", "market_cap", "volume_24h", "circulating_supply", "last_7d"}

Prices == {"$1.00", "$2.00"}

\* A coin as passed to insert_coin: the twelve columns, None where unknown.
Coin(rank, price) ==
    [f \in Fields |-> IF f = "rank" THEN rank ELSE IF f = "price" THEN price ELSE None]

\* ------------------------------------------------------------------------
\* Record sink

\* Columns of the coins table that carry a UNIQUE or PRIMARY KEY constraint.
UniqueColumns == {}

\* Does a stored row conflict with a new row on some unique column?
Conflicts(r, coin) ==
    \E c \in UniqueColumns : r[c] = coin[c]

\* INSERT OR REPLACE: delete the rows that conflict, then insert.
InsertOrReplace(tbl, coin) ==
    Append(SelectSeq(tbl, LAMBDA r : ~Conflicts(r, coin)), coin)

RECURSIVE ApplyAll(_, _)
ApplyAll(tbl, coins) ==
    IF coins = <<>> THEN tbl
    ELSE ApplyAll(InsertOrReplace(tbl, Head(coins)), Tail(coins))

\* db.execute(INSERT OR REPLACE ...): the row joins the open transaction.
Execute(p, coin) == Append(p, coin)

\* db.commit(): everything in the open transaction becomes durable.
Commit(tbl, p) == ApplyAll(tbl, p)

RowsWithRank(tbl, rank) == {i \in 1..Len(tbl) : tbl[i]["rank"] = rank}

SinkInit ==
    /\ schema = FALSE
    /\ durable = <<>>
    /\ pending = <<>>
    /\ latest = [r \in 1..MaxRank |-> <<>>]

\* create_db: CREATE TABLE IF NOT EXISTS coins (...); commit.
create_db ==
    /\ schema = FALSE
    /\ schema' = TRUE
    /\ UNCHANGED <<durable, pending, latest>>

\* insert_coin(db, coin) called on its own: execute, then commit.
insert_coin(coin) ==
    /\ schema
    /\ Len(durable) < MaxInserts
    /\ durable' = Commit(durable, Execute(pending, coin))
    /\ pending' = <<>>
    /\ latest' = [latest EXCEPT ![coin["rank"]] = <<coin>>]
    /\ UNCHANGED schema

\* ------------------------------------------------------------------------
\* Page orchestration (process_page / main) with the browser lifecycle of
\* coinmarketcap.  The scroll loop is one position here ("scroll"); its
\* iterations are the scroll-loop actions further down.

Pages == 1..NumUrls

\* URLs per batch: main slices urls two at a time in the async variant and
\* calls process_page once per URL in the sync variant.
BatchSize == IF variant = "async" THEN 2 ELSE 1

\* urls[b : b + BatchSize], as page numbers
Batch(b) == {t \in Pages : b < t /\ t <= b + BatchSize}

BatchOf(t) == (t - 1) \div BatchSize

\* rank of the i-th record of page t
PageRank(t, i) == (t - 1) * MaxRecs + i
PageCoin(t, i) == Coin(PageRank(t, i), "$1.00")

InProgress(t) == tpc[t] \in {"goto", "scroll", "extract", "execute", "commit"}
Ended(t)      == tpc[t] \in {"done", "failed", "cancelled"}

\* Leaving the playwright context manager (normally or by an exception)
\* stops the driver, which closes a browser that is still open.
ContextExitLeak(s) == s
ContextExit(s) == IF s = "open" THEN "released" ELSE s

\* asyncio.gather(*tasks) returns once every task of the batch has finished;
\* the sync loop returns from process_page.
BatchJoinedAny(b) == \E t \in Batch(b) : tpc[t] = "done"
BatchJoined(b) == \A t \in Batch(b) : tpc[t] = "done"

OrchInit ==
    /\ mainpc = "start"
    /\ batch_index = 0
    /\ tpc = [t \in Pages |-> "new"]
    /\ sent = [t \in Pages |-> 0]
    /\ session = [t \in Pages |-> "none"]
    /\ releases = [t \in Pages |-> 0]
    /\ cause = [t \in Pages |-> "none"]

\* main: create_db() (and open_db() in the async variant)
main_start ==
    /\ mainpc = "start"
    /\ mainpc' = "loop"
    /\ schema' = TRUE
    /\ UNCHANGED <<durable, pending, latest, batch_index, tpc, sent, session, releases, cause>>

\* main: the tasks of the next batch are created (async) or process_page is
\* called and opens its connection (sync)
start_batch ==
    /\ mainpc = "loop"
    /\ batch_index < NumUrls
    /\ mainpc' = "gather"
    /\ tpc' = [t \in Pages |-> IF t \in Batch(batch_index) THEN "ready" ELSE tpc[t]]
    /\ pending' = IF variant = "sync" THEN <<>> ELSE pending
    /\ UNCHANGED <<schema, durable, latest, batch_index, sent, session, releases, cause>>

\* coinmarketcap: playwright started, browser launched, context and page opened
launch(t) ==
    /\ tpc[t] = "ready"
    /\ tpc' = [tpc EXCEPT ![t] = "goto"]
    /\ session' = [session EXCEPT ![t] = "open"]
    /\ UNCHANGED <<sinkVars, mainpc, batch_index, sent, releases, cause>>

\* An exception leaves process_page: the task has failed.  In the sync
\* variant it propagates through main at once (finally: db.close()).
Fail(t, why) ==
    /\ tpc' = [tpc EXCEPT ![t] = "failed"]
    /\ cause' = [cause EXCEPT ![t] = why]
    /\ mainpc' = IF variant = "sync" THEN "aborted" ELSE mainpc
    /\ pending' = IF variant = "sync" THEN <<>> ELSE pending

\* The exception passes the playwright context manager(s) on its way out.
ExitByException(t) ==
    /\ session' = [session EXCEPT ![t] = ContextExit(session[t])]
    /\ releases' = [releases EXCEPT
                      ![t] = IF session[t] = "open" /\ ContextExit(session[t]) = "released"
                             THEN @ + 1 ELSE @]

\* page.goto(url, timeout=...) returns
goto_ok(t) ==
    /\ tpc[t] = "goto"
    /\ tpc' = [tpc EXCEPT ![t] = "scroll"]
    /\ UNCHANGED <<sinkVars, mainpc, batch_index, sent, session, releases, cause>>

\* page.goto raises (navigation failure or timeout)
goto_fail(t) ==
    /\ tpc[t] = "goto"
    /\ ExitByException(t)
    /\ Fail(t, "navigation")
    /\ UNCHANGED <<schema, durable, latest, batch_index, sent>>

\* await browser.close() right after page.content() (async); page.close()
\* and the end of "with sp.chromium.launch(...) as browser" (sync)
CloseBrowserDeferred(s) == s
CloseBrowser(s) == "released"

\* the scroll loop has ended: page.content(), then the browser is closed,
\* before the markup is parsed
scroll_done(t) ==
    /\ tpc[t] = "scroll"
    /\ tpc' = [tpc EXCEPT ![t] = "extract"]
    /\ session' = [session EXCEPT ![t] = CloseBrowser(session[t])]
    /\ releases' = [releases EXCEPT
                      ![t] = IF CloseBrowser(session[t]) = "released" THEN @ + 1 ELSE @]
    /\ UNCHANGED <<sinkVars, mainpc, batch_index, sent, cause>>

\* page.evaluate, keyboard.press, wait_for_timeout or page.content raises
scroll_raise(t) ==
    /\ tpc[t] = "scroll"
    /\ ExitByException(t)
    /\ Fail(t, "scroll")
    /\ UNCHANGED <<schema, durable, latest, batch_index, sent>>

\* BeautifulSoup(html_text, 'html.parser') raises, before any row is read
extract_raise(t) ==
    /\ tpc[t] = "extract"
    /\ sent[t] = 0
    /\ ExitByException(t)
    /\ Fail(t, "extract")
    /\ UNCHANGED <<schema, durable, latest, batch_index, sent>>

\* the extraction hands the next record of the page to insert_coin
yield_coin(t) ==
    /\ tpc[t] = "extract"
    /\ sent[t] < MaxRecs
    /\ sent' = [sent EXCEPT ![t] = @ + 1]
    /\ tpc' = [tpc EXCEPT ![t] = "execute"]
    /\ UNCHANGED <<sinkVars, mainpc, batch_index, session, releases, cause>>

\* insert_coin: (await) db.execute(INSERT OR REPLACE ...)
execute(t) ==
    /\ tpc[t] = "execute"
    /\ pending' = Execute(pending, PageCoin(t, sent[t]))
    /\ tpc' = [tpc EXCEPT ![t] = "commit"]
    /\ UNCHANGED <<schema, durable, latest, mainpc, batch_index, sent, session, releases, cause>>

\* insert_coin: (await) db.commit()
commit(t) ==
    /\ tpc[t] = "commit"
    /\ durable' = Commit(durable, pending)
    /\ pending' = <<>>
    /\ tpc' = [tpc EXCEPT ![t] = "extract"]
    /\ UNCHANGED <<schema, latest, mainpc, batch_index, sent, session, releases, cause>>

\* no further record: the generator ends (async) or the coins list is
\* exhausted and the connection closed (sync)
extract_end(t) ==
    /\ tpc[t] = "extract"
    /\ tpc' = [tpc EXCEPT ![t] = "done"]
    /\ UNCHANGED <<sinkVars, mainpc, batch_index, sent, session, releases, cause>>

\* main: gather (or process_page) has returned; on to the next batch
gather_done ==
    /\ mainpc = "gather"
    /\ BatchJoined(batch_index)
    /\ batch_index' = batch_index + BatchSize
    /\ mainpc' = "loop"
    /\ UNCHANGED <<sinkVars, tpc, sent, session, releases, cause>>

\* main (async): gather re-raises the first exception of a task; main ends
\* with it and asyncio.run cancels every task that is still running.
gather_fail ==
    /\ variant = "async"
    /\ mainpc = "gather"
    /\ \E t \in Batch(batch_index) : tpc[t] = "failed"
    /\ mainpc' = "aborted"
    /\ tpc' = [t \in Pages |-> IF tpc[t] = "ready" \/ InProgress(t) THEN "cancelled" ELSE tpc[t]]
    /\ session' = [t \in Pages |-> IF InProgress(t) THEN ContextExit(session[t]) ELSE session[t]]
    /\ releases' = [t \in Pages |->
                      IF InProgress(t) /\ session[t] = "open" /\ ContextExit(session[t]) = "released"
                      THEN releases[t] + 1 ELSE releases[t]]
    /\ pending' = <<>>
    /\ UNCHANGED <<schema, durable, latest, batch_index, sent, cause>>

\* main: every batch is through; close_db() in the async variant
main_end ==
    /\ mainpc = "loop"
    /\ batch_index >= NumUrls
    /\ mainpc' = "done"
    /\ pending' = <<>>
    /\ UNCHANGED <<schema, durable, latest, batch_index, tpc, sent, session, releases, cause>>

\* ------------------------------------------------------------------------
\* Scroll loop of coinmarketcap

\* thresholds 1..MaxThreshold are tried
MaxThreshold == 3
\* number of distinct page heights
MaxHeightSteps == 3
\* iterations recorded per run
MaxIters == 5

Heights == {100 + 50 * k : k \in 0..(MaxHeightSteps - 1)}

\* how the height read after the pause compares with the one read before
Cmp(old, new) == IF new > old THEN "up" ELSE IF new = old THEN "same" ELSE "down"

\* while count < max_count
LoopContinuesInclusive(c, m) == c <= m
LoopContinues(c, m) == c < m

\* if old_height == new_height: count += 1  else: count = 0
NextCountGrowthOnly(c, old, new) == IF new > old THEN 0 ELSE c + 1
NextCountNoReset(c, old, new) == c + 1
NextCount(c, old, new) == IF old = new THEN c + 1 ELSE 0

ScrollInit ==
    /\ spc = "idle"
    /\ max_count = 0
    /\ count = 0
    /\ old_height = 0
    /\ new_height = 0
    /\ obs = <<>>
    /\ settled = FALSE

\* count, max_count = 0, T
scroll_start ==
    /\ spc = "idle"
    /\ \E T \in 1..MaxThreshold : max_count' = T
    /\ count' = 0
    /\ spc' = "loop"
    /\ UNCHANGED <<old_height, new_height, obs, settled>>

\* one pass through the loop body: read the height, press ArrowDown ten
\* times, wait, read the height again, update the counter.  The page decides
\* both heights.
scroll_iteration ==
    /\ spc = "loop"
    /\ LoopContinues(count, max_count)
    /\ Len(obs) < MaxIters
    /\ \E old \in Heights, new \in Heights :
          /\ old_height' = old
          /\ new_height' = new
          /\ count' = NextCount(count, old, new)
          /\ obs' = Append(obs, Cmp(old, new))
    /\ UNCHANGED <<spc, max_count, settled>>

\* the while test fails: the loop is left
scroll_exit ==
    /\ spc = "loop"
    /\ ~LoopContinues(count, max_count)
    /\ spc' = "done"
    /\ UNCHANGED <<max_count, count, old_height, new_height, obs, settled>>

\* the last n entries of s
LastN(s, n) == IF Len(s) <= n THEN s ELSE SubSeq(s, Len(s) - n + 1, Len(s))

\* the page stops loading content: from now on its height stays the same
page_settles ==
    /\ spc = "loop"
    /\ settled = FALSE
    /\ settled' = TRUE
    /\ UNCHANGED <<spc, max_count, count, old_height, new_height, obs>>

\* one pass through the loop body with no cap on the number of passes: the
\* history keeps the comparisons of the last max_count passes only.  A
\* settled page shows the same height before and after the burst.
scroll_pass ==
    /\ spc = "loop"
    /\ LoopContinues(count, max_count)
    /\ \E old \in Heights, new \in Heights :
          /\ settled => old = new
          /\ old_height' = old
          /\ new_height' = new
          /\ count' = NextCount(count, old, new)
          /\ obs' = LastN(Append(obs, Cmp(old, new)), max_count)
    /\ UNCHANGED <<spc, max_count, settled>>

\* number of trailing entries of s that lie in the set K
RECURSIVE Trailing(_, _)
Trailing(s, K) ==
    IF s = <<>> THEN 0
    ELSE IF s[Len(s)] \in K THEN 1 + Trailing(SubSeq(s, 1, Len(s) - 1), K)
    ELSE 0

\* ------------------------------------------------------------------------
\* Row extraction and normalisation of coinmarketcap

\* header labels of a page
MaxCols == 3
\* data cells of a row
MaxCells == 3
\* rows of a page
MaxRows == 2

\* a Python dict is a function whose domain is its set of keys
EmptyDict == [k \in {} |-> None]
Put(d, k, v) == [x \in (DOMAIN d) \cup {k} |-> IF x = k THEN v ELSE d[x]]
\* dict.get(k): None when the key is absent
Get(d, k) == IF k \in DOMAIN d THEN d[k] ELSE None

\* labels a page can show, in the order of the table
LabelOrder == <<"Price", "1h %", "24h %", "7d %">>

\* the header lists tried: the order-preserving selections of at most
\* MaxCols labels
IsHeaderList(h) ==
    /\ Len(h) <= MaxCols
    /\ \A i \in 1..Len(h) : \E j \in 1..Len(LabelOrder) : h[i] = LabelOrder[j]
    /\ \A i, j \in 1..Len(h) : i < j =>
          \E a, b \in 1..Len(LabelOrder) : a < b /\ h[i] = LabelOrder[a] /\ h[j] = LabelOrder[b]

HeaderLists ==
    {h \in UNION {[1..n -> {LabelOrder[j] : j \in 1..Len(LabelOrder)}] : n \in 0..MaxCols} :
        IsHeaderList(h)}

\* what a row element can contain
RankTexts == {"1", ""}                    \* text of the td[style*="start"] cell
CellTexts == {"", "$1.23", "+0.5%", "+3.2%"}   \* text of a td[style*="end"] cell
CellImgs  == {None, "chart.png"}          \* src of the img inside it; None without img
\* the text the cell at position i shows when it is not empty
SampleText(i) == IF i = 1 THEN "$1.23" ELSE IF i = 2 THEN "+0.5%" ELSE "+3.2%"
\* the data cells of a row: each cell empty or with its text, with or without img
CellLists(n) ==
    {cs \in [1..n -> [text : CellTexts, img : CellImgs]] :
        \A i \in 1..n : cs[i].text \in {"", SampleText(i)}}
Identities == {[logo |-> None, name |-> None, symbol |-> None],
               [logo |-> "logo.png", name |-> "Bitcoin", symbol |-> "BTC"],
               [logo |-> None, name |-> "Bitcoin", symbol |-> None]}
RowElements ==
    {[rank |-> r, logo |-> id.logo, name |-> id.name, symbol |-> id.symbol, cells |-> cs] :
        r \in RankTexts \cup {None}, id \in Identities,
        cs \in UNION {CellLists(n) : n \in 0..MaxCells}}

\* int(text): defined on decimal numerals only.  The integer n is written
\* "int n", which keeps it apart from the text it was parsed from.
IsNumeral(s) == s \in {"1"}
ToInt(s) == IF s = "1" THEN "int 1" ELSE "int 0"

\* Does reading the rank cell raise?  int() is applied in the async variant
\* only; the sync variant keeps the text.
RankRaises(v, r) == v = "async" /\ r.rank # None /\ ~IsNumeral(r.rank)

\* rank, logo, name and symbol of the row
Leading(v, r) ==
    LET i1 == IF r.rank # None
              THEN Put(EmptyDict, "rank", IF v = "async" THEN ToInt(r.rank) ELSE r.rank)
              ELSE EmptyDict
        i2 == IF r.logo # None THEN Put(i1, "logo", r.logo) ELSE i1
        i3 == IF r.name # None THEN Put(i2, "name", r.name) ELSE i2
    IN  IF r.symbol # None THEN Put(i3, "symbol", r.symbol) ELSE i3

\* if idx == len(cell_texts) - 1
IsLastCellOfHeader(idx, cells, hdrs) == idx = Len(hdrs)
IsLastCell(idx, cells, hdrs) == idx = Len(cells)

\* body of the loop over the data cells, for the cell at position idx
\* (1-based); headers[idx] raises IndexError past the last header, which the
\* try/except around the body swallows
CellStep(info, hdrs, cells, idx) ==
    IF idx > Len(hdrs) THEN info
    ELSE IF IsLastCell(idx, cells, hdrs)
         THEN IF cells[idx].img # None THEN Put(info, hdrs[idx], cells[idx].img) ELSE info
         ELSE IF cells[idx].text # "" THEN Put(info, hdrs[idx], cells[idx].text) ELSE info

RECURSIVE CellLoop(_, _, _, _)
CellLoop(info, hdrs, cells, idx) ==
    IF idx > Len(cells) THEN info
    ELSE CellLoop(CellStep(info, hdrs, cells, idx), hdrs, cells, idx + 1)

\* normalized_coin = {'rank': coin_info.get('rank'), ...}
normalized_coin_lowercase(info) ==
    [rank               |-> Get(info, "rank"),
     logo               |-> Get(info, "logo"),
     name               |-> Get(info, "name"),
     symbol             |-> Get(info, "symbol"),
     price              |-> Get(info, "price"),
     change_1h          |-> Get(info, "1h %"),
     change_24h         |-> Get(info, "24h %"),
     change_7d          |-> Get(info, "7d %"),
     market_cap         |-> Get(info, "Market Cap"),
     volume_24h         |-> Get(info, "Volume(24h)"),
     circulating_supply |-> Get(info, "Circulating Supply"),
     last_7d            |-> Get(info, "Last 7 Days")]
normalized_coin(info) ==
    [rank               |-> Get(info, "rank"),
     logo               |-> Get(info, "logo"),
     name               |-> Get(info, "name"),
     symbol             |-> Get(info, "symbol"),
     price              |-> Get(info, "Price"),
     change_1h          |-> Get(info, "1h %"),
     change_24h         |-> Get(info, "24h %"),
     change_7d          |-> Get(info, "7d %"),
     market_cap         |-> Get(info, "Market Cap"),
     volume_24h         |-> Get(info, "Volume(24h)"),
     circulating_supply |-> Get(info, "Circulating Supply"),
     last_7d            |-> Get(info, "Last 7 Days")]

\* if coin_info: emit normalized_coin
Emit(info) == IF DOMAIN info # {} THEN <<normalized_coin(info)>> ELSE <<>>

ExtractInit ==
    /\ epc = "idle"
    /\ headers = <<>>
    /\ rows_left = 0
    /\ row = <<>>
    /\ coin_info = EmptyDict
    /\ yielded = <<>>

\* headers = [... soup.select('th[style*="end"]')]; rows = soup.select('tr')
extract_start ==
    /\ epc = "idle"
    /\ epc' = "rows"
    /\ headers' \in HeaderLists
    /\ rows_left' \in 0..MaxRows
    /\ UNCHANGED <<row, coin_info, yielded>>

\* one pass through the body of the loop over the rows, for the next row
\* element r of the page
process_row ==
    /\ epc = "rows"
    /\ rows_left > 0
    /\ rows_left' = rows_left - 1
    /\ \E r \in RowElements :
          /\ row' = <<r>>
          /\ IF RankRaises(variant, r)
             THEN \* int() raises outside the per-cell try; the except around
                  \* the row loop logs it and the generator ends
                  /\ epc' = "aborted"
                  /\ coin_info' = EmptyDict
                  /\ yielded' = <<>>
             ELSE /\ epc' = "row_done"
                  /\ coin_info' = CellLoop(Leading(variant, r), headers, r.cells, 1)
                  /\ yielded' = Emit(coin_info')
    /\ UNCHANGED headers

\* back at the head of the loop: for row in rows: coin_info = {}
loop_back ==
    /\ epc = "row_done"
    /\ epc' = "rows"
    /\ row' = <<>>
    /\ coin_info' = EmptyDict
    /\ yielded' = <<>>
    /\ UNCHANGED <<headers, rows_left>>

\* the row loop is through
extract_finish ==
    /\ epc = "rows"
    /\ rows_left = 0
    /\ epc' = "end"
    /\ UNCHANGED <<headers, rows_left, row, coin_info, yielded>>

\* ---- normalisation on its own: every raw row over the keys it can hold ----

RawKeys == {"rank", "logo", "name", "symbol", "Price", "1h %", "24h %", "7d %",
            "Market Cap", "Volume(24h)", "Circulating Supply", "Last 7 Days", "Volume"}

\* one value per key, all different
SampleValue(k) ==
    CASE k = "rank" -> "int 1"
      [] k = "logo" -> "logo.png"
      [] k = "name" -> "Bitcoin"
      [] k = "symbol" -> "BTC"
      [] k = "Price" -> "$1.23"
      [] k = "1h %" -> "+0.5%"
      [] k = "24h %" -> "-1.0%"
      [] k = "7d %" -> "+3.2%"
      [] k = "Market Cap" -> "$1T"
      [] k = "Volume(24h)" -> "$30B"
      [] k = "Circulating Supply" -> "19M BTC"
      [] k = "Last 7 Days" -> "chart.png"
      [] OTHER -> "other"

RawRows == {[k \in K |-> SampleValue(k)] : K \in SUBSET RawKeys}

\* the "if coin_info:" block applied to a raw row
normalize ==
    /\ epc = "raw"
    /\ epc' = "normalized"
    /\ yielded' = Emit(coin_info)
    /\ UNCHANGED <<headers, rows_left, row, coin_info>>

\* ------------------------------------------------------------------------
\* Specifications

\* the record sink on its own: create_db, then upserts
InitSink ==
    /\ variant \in Variants
    /\ SinkInit
    /\ OrchInit /\ ScrollInit /\ ExtractInit

NextSink ==
    \/ create_db /\ UNCHANGED <<variant, orchVars, scrollVars, extractVars>>
    \/ \E rank \in 1..MaxRank, price \in Prices :
          insert_coin(Coin(rank, price)) /\ UNCHANGED <<variant, orchVars, scrollVars, extractVars>>

SpecSink == InitSink /\ [][NextSink]_vars

\* the scroll loop on its own
InitScroll ==
    /\ variant \in Variants
    /\ SinkInit /\ OrchInit /\ ScrollInit /\ ExtractInit

NextScroll ==
    \/ scroll_start /\ UNCHANGED <<variant, sinkVars, orchVars, extractVars>>
    \/ scroll_iteration /\ UNCHANGED <<variant, sinkVars, orchVars, extractVars>>
    \/ scroll_exit /\ UNCHANGED <<variant, sinkVars, orchVars, extractVars>>

SpecScroll == InitScroll /\ [][NextScroll]_vars

\* the scroll loop with no cap on its passes.  The loop is sequential code
\* whose awaits return: a pass that can be made is made, and the loop is
\* left when its test fails.
NextScrollFair ==
    \/ scroll_start /\ UNCHANGED <<variant, sinkVars, orchVars, extractVars>>
    \/ page_settles /\ UNCHANGED <<variant, sinkVars, orchVars, extractVars>>
    \/ scroll_pass /\ UNCHANGED <<variant, sinkVars, orchVars, extractVars>>
    \/ scroll_exit /\ UNCHANGED <<variant, sinkVars, orchVars, extractVars>>

SpecScrollFair ==
    /\ InitScroll
    /\ [][NextScrollFair]_vars
    /\ WF_vars(scroll_pass /\ UNCHANGED <<variant, sinkVars, orchVars, extractVars>>)
    /\ WF_vars(scroll_exit /\ UNCHANGED <<variant, sinkVars, orchVars, extractVars>>)

\* the row extraction of one page
InitExtract ==
    /\ variant \in Variants
    /\ SinkInit /\ OrchInit /\ ScrollInit /\ ExtractInit

NextExtract ==
    \/ extract_start /\ UNCHANGED <<variant, sinkVars, orchVars, scrollVars>>
    \/ process_row /\ UNCHANGED <<variant, sinkVars, orchVars, scrollVars>>
    \/ loop_back /\ UNCHANGED <<variant, sinkVars, orchVars, scrollVars>>
    \/ extract_finish /\ UNCHANGED <<variant, sinkVars, orchVars, scrollVars>>

SpecExtract == InitExtract /\ [][NextExtract]_vars

\* the normalisation applied to every raw row
InitNormalize ==
    /\ variant \in Variants
    /\ SinkInit /\ OrchInit /\ ScrollInit
    /\ epc = "raw"
    /\ headers = <<>>
    /\ rows_left = 0
    /\ row = <<>>
    /\ coin_info \in RawRows
    /\ yielded = <<>>

NextNormalize ==
    normalize /\ UNCHANGED <<variant, sinkVars, orchVars, scrollVars>>

SpecNormalize == InitNormalize /\ [][NextNormalize]_vars

\* the whole run of main
Init ==
    /\ variant \in Variants
    /\ SinkInit /\ OrchInit /\ ScrollInit /\ ExtractInit

Next ==
    \/ main_start /\ UNCHANGED <<variant, scrollVars, extractVars>>
    \/ start_batch /\ UNCHANGED <<variant, scrollVars, extractVars>>
    \/ gather_done /\ UNCHANGED <<variant, scrollVars, extractVars>>
    \/ gather_fail /\ UNCHANGED <<variant, scrollVars, extractVars>>
    \/ main_end /\ UNCHANGED <<variant, scrollVars, extractVars>>
    \/ \E t \in Pages :
          /\ \/ launch(t)
             \/ goto_ok(t)
             \/ goto_fail(t)
             \/ scroll_done(t)
             \/ scroll_raise(t)
             \/ extract_raise(t)
             \/ yield_coin(t)
             \/ execute(t)
             \/ commit(t)
             \/ extract_end(t)
          /\ UNCHANGED <<variant, scrollVars, extractVars>>

Spec == Init /\ [][Next]_vars

\* ------------------------------------------------------------------------
\* Properties

\* C1 (as claimed): after any sequence of upserts there is exactly one stored
\* row for every rank that was upserted, and it is the most recent upsert for
\* that rank.
C1_OneRowPerRankLatest ==
    \A rank \in 1..MaxRank :
        latest[rank] # <<>> =>
            /\ Cardinality(RowsWithRank(durable, rank)) = 1
            /\ \A i \in RowsWithRank(durable, rank) : durable[i] = latest[rank][1]

\* the records page t has handed to insert_coin are all durable
Stored(t) ==
    \A i \in 1..sent[t] : \E k \in 1..Len(durable) : durable[k] = PageCoin(t, i)

\* C2 (as claimed): when orchestration of the two pages has ended, then if no
\* task failed both pages ran to completion with their records stored, and
\* if one page failed at navigation the other page still ran to completion
\* with every one of its records stored.
C2_BothPagesStored ==
    mainpc \in {"done", "aborted"} =>
        /\ (\A t \in Pages : tpc[t] # "failed") =>
              \A t \in {1, 2} : tpc[t] = "done" /\ Stored(t)
        /\ \A t, u \in {1, 2} :
              (t # u /\ tpc[t] = "failed" /\ cause[t] = "navigation" /\ tpc[u] # "failed")
                  => (tpc[u] = "done" /\ Stored(u))

\* C3 (as claimed): an iteration of the scroll loop resets the counter when
\* the height increased and increments it by one in every other case; no
\* other step changes the counter.
C3_ResetOnlyOnIncrease ==
    [][IF Len(obs') = Len(obs) + 1
       THEN count' = (IF new_height' > old_height' THEN 0 ELSE count + 1)
       ELSE count' = count]_vars

\* C3 (amended): an iteration of the scroll loop resets the counter when the
\* height read after the pause differs from the height read before the
\* burst (it grew or it shrank) and increments it by one when the two are
\* equal; no other step changes the counter.
C3_ResetOnChange ==
    [][IF Len(obs') = Len(obs) + 1
       THEN count' = (IF new_height' # old_height' THEN 0 ELSE count + 1)
       ELSE count' = count]_vars

\* C3 witness: an iteration saw the page shrink after a stall and reset a
\* counter that stood at one or more.
C3_ShrinkResets ==
    /\ Len(obs) >= 2
    /\ obs[Len(obs) - 1] = "same"
    /\ new_height < old_height
    /\ count = 0

\* C4 (as claimed): the loop stops exactly at the end of the first iteration
\* that completes max_count consecutive no-growth observations (height not
\* larger than before): no iteration follows such a run, and the loop is
\* left only with such a run just completed.
C4_StopsAtFirstNoGrowthRun ==
    /\ \A k \in 0..(Len(obs) - 1) :
          Trailing(SubSeq(obs, 1, k), {"same", "down"}) < max_count
    /\ spc = "done" => Trailing(obs, {"same", "down"}) = max_count

\* C4 (amended): the loop stops exactly at the end of the first iteration
\* that completes max_count consecutive observations of an unchanged
\* height: no iteration follows such a run, and the loop is left only with
\* such a run just completed and the counter at max_count.
C4_StopsAtFirstUnchangedRun ==
    /\ \A k \in 0..(Len(obs) - 1) :
          Trailing(SubSeq(obs, 1, k), {"same"}) < max_count
    /\ spc = "done" => (Trailing(obs, {"same"}) = max_count /\ count = max_count)

\* C4 witness: heights 100,150,150,150,150 with threshold 3; the loop has
\* stopped after the third repeat with three stalls counted.
C4_ExampleRun ==
    /\ spc = "done"
    /\ max_count = 3
    /\ obs = <<"up", "same", "same", "same">>
    /\ old_height = 150
    /\ new_height = 150
    /\ count = 3

\* a cell of the row cannot be extracted: the rank cell does not parse, or a
\* data cell has no header label at its index
HasFailingCell(v, r, hdrs) ==
    \/ RankRaises(v, r)
    \/ Len(r.cells) > Len(hdrs)

\* C5 (as claimed): when a cell of a row fails, only that field is omitted:
\* the row loop is not aborted, and the row's other fields (logo, name,
\* symbol, the data cells that have a label) are emitted as a record.
C5_CellFailureOmitsOnlyField ==
    (row # <<>> /\ HasFailingCell(variant, row[1], headers)) =>
        LET r == row[1] IN
        /\ epc # "aborted"
        /\ r.logo # None => (yielded # <<>> /\ yielded[1].logo = r.logo)
        /\ r.name # None => (yielded # <<>> /\ yielded[1].name = r.name)
        /\ r.symbol # None => (yielded # <<>> /\ yielded[1].symbol = r.symbol)
        /\ \A i \in 1..(Len(r.cells) - 1) :
              (i <= Len(headers) /\ r.cells[i].text # "")
                  => (yielded # <<>> /\ Get(coin_info, headers[i]) = r.cells[i].text)

\* C6: for every row whose data cells were read, the final data cell is
\* stored under the header label at its index as its image reference (None
\* without an image) and never as its text, whether or not the text is
\* empty; every earlier data cell with non-empty text is stored as that
\* text under the header label at its own index.
C6_LastCellIsImage ==
    (row # <<>> /\ epc # "aborted") =>
        LET r == row[1]
            n == Len(r.cells)
        IN  /\ (n >= 1 /\ n <= Len(headers)) =>
                  /\ Get(coin_info, headers[n]) = r.cells[n].img
                  /\ Get(coin_info, headers[n]) \notin CellTexts
            /\ \A i \in 1..(n - 1) :
                  (i <= Len(headers) /\ r.cells[i].text # "")
                      => Get(coin_info, headers[i]) = r.cells[i].text

\* C6 witness: labels [Price, 1h %, 7d %], texts [$1.23, +0.5%, ''] and the
\* image chart.png in the last cell give {Price: $1.23, 1h %: +0.5%,
\* 7d %: chart.png}.
C6_Example ==
    /\ headers = <<"Price", "1h %", "7d %">>
    /\ row # <<>>
    /\ Len(row[1].cells) = 3
    /\ row[1].cells[1].text = "$1.23"
    /\ row[1].cells[2].text = "+0.5%"
    /\ row[1].cells[3] = [text |-> "", img |-> "chart.png"]
    /\ Get(coin_info, "Price") = "$1.23"
    /\ Get(coin_info, "1h %") = "+0.5%"
    /\ Get(coin_info, "7d %") = "chart.png"

\* the label each canonical field is read from
ExpectedLabel(f) ==
    CASE f = "rank" -> "rank"
      [] f = "logo" -> "logo"
      [] f = "name" -> "name"
      [] f = "symbol" -> "symbol"
      [] f = "price" -> "Price"
      [] f = "change_1h" -> "1h %"
      [] f = "change_24h" -> "24h %"
      [] f = "change_7d" -> "7d %"
      [] f = "market_cap" -> "Market Cap"
      [] f = "volume_24h" -> "Volume(24h)"
      [] f = "circulating_supply" -> "Circulating Supply"
      [] f = "last_7d" -> "Last 7 Days"

\* C7: for every raw row that holds at least one key, exactly one record is
\* emitted; it has the twelve canonical fields and no other, each equal to
\* the raw row's value for the field's label and None when the label is
\* absent.
C7_NormalizeTotal ==
    (epc = "normalized" /\ DOMAIN coin_info # {}) =>
        /\ Len(yielded) = 1
        /\ DOMAIN yielded[1] = Fields
        /\ \A f \in Fields :
              yielded[1][f] = (IF ExpectedLabel(f) \in DOMAIN coin_info
                               THEN coin_info[ExpectedLabel(f)] ELSE None)

\* C7 witness: a raw row with only a price and an unknown label has been
\* normalised; the price is kept, the other fields are None.
C7_SparseRowNormalized ==
    /\ epc = "normalized"
    /\ DOMAIN coin_info = {"Price", "Volume"}
    /\ Len(yielded) = 1
    /\ yielded[1].price = "$1.23"
    /\ yielded[1].rank = None
    /\ yielded[1].volume_24h = None

\* C8: in the async variant no pipeline of a later batch has been created
\* while a pipeline of an earlier batch has neither completed nor failed,
\* and at most two pipelines are in progress.
C8_BatchBarrier ==
    variant = "async" =>
        /\ \A t, u \in Pages :
              ((t - 1) \div 2 < (u - 1) \div 2 /\ tpc[u] # "new")
                  => tpc[t] \in {"done", "failed"}
        /\ Cardinality({t \in Pages : InProgress(t)}) <= 2

\* C8 witness: both pipelines of the second batch are in progress.
C8_SecondBatchRunning ==
    /\ variant = "async"
    /\ InProgress(3)
    /\ InProgress(4)

\* C9: a browser is released at most once, it is released when and only
\* when it is no longer open, and no browser is open once its page's task
\* has ended (completed, failed or been cancelled).
C9_SessionReleasedOnce ==
    \A t \in Pages :
        /\ releases[t] <= 1
        /\ session[t] = "released" <=> releases[t] = 1
        /\ session[t] = "none" => tpc[t] \in {"new", "ready", "cancelled"}
        /\ Ended(t) => session[t] # "open"

\* C9 witness: a task has failed at navigation and its browser was released
\* once.
C9_ReleasedAfterNavigationFailure ==
    \E t \in Pages :
        /\ tpc[t] = "failed"
        /\ cause[t] = "navigation"
        /\ session[t] = "released"
        /\ releases[t] = 1

\* C10 (as claimed): every commit makes durable exactly the one record
\* upserted by the committing task.
C10_CommitCoversOwnUpsert ==
    [][\A t \in Pages :
          (tpc[t] = "commit" /\ tpc'[t] = "extract")
              => pending = <<PageCoin(t, sent[t])>>]_vars

\* C11 (as claimed): the session of a page is released only after all of
\* the page's records have been upserted, so the session is still held
\* while a record of the page is being upserted.
C11_SessionHeldDuringUpserts ==
    \A t \in Pages :
        tpc[t] \in {"execute", "commit"} => session[t] = "open"

\* C11 (amended): for each URL the steps occur in this order: the session
\* is acquired, the page is scrolled, the session is released, and only
\* then are the rows extracted and the records upserted; the session is
\* open during navigation and scrolling only, and it is already released
\* when the first record of the page is upserted.
C11_SessionReleasedBeforeUpserts ==
    \A t \in Pages :
        /\ tpc[t] \in {"goto", "scroll"} => (session[t] = "open" /\ sent[t] = 0)
        /\ tpc[t] \in {"new", "ready"} => (session[t] = "none" /\ sent[t] = 0)
        /\ (tpc[t] \in {"extract", "execute", "commit", "done"} \/ sent[t] > 0)
              => (session[t] = "released" /\ releases[t] = 1)
        /\ \A i \in 1..Len(durable) :
              (durable[i]["rank"] - 1) \div MaxRecs + 1 = t
                  => (session[t] = "released" /\ durable[i]["rank"] <= PageRank(t, sent[t]))

\* C11 witness: a page is committing its last record and its browser was
\* released before.
C11_UpsertAfterRelease ==
    \E t \in Pages :
        /\ tpc[t] = "commit"
        /\ sent[t] = MaxRecs
        /\ session[t] = "released"

\* a pass that sees the height change and resets the counter
ResettingPass ==
    /\ scroll_pass
    /\ count' = 0
    /\ UNCHANGED <<variant, sinkVars, orchVars, extractVars>>

\* C12: once the page has stopped changing its height the loop ends, after
\* at most max_count passes since the last change (the counter is the
\* number of passes since the last change and never exceeds max_count); the
\* loop is left only when the last max_count passes all saw an unchanged
\* height, so a page that changes in every run of max_count passes keeps it
\* going; and no number of passes ends the loop: as long as the page has
\* not settled and the loop is running, a further pass that resets the
\* counter is possible.
C12_EndsOnlyWhenHeightSettles ==
    /\ [](count <= max_count /\ count = Trailing(obs, {"same"}))
    /\ [](spc = "done" => (Len(obs) = max_count /\ \A i \in 1..Len(obs) : obs[i] = "same"))
    /\ []((spc = "loop" /\ ~settled /\ count < max_count) => ENABLED ResettingPass)
    /\ (settled ~> spc = "done")

\* C12 witness: the page settled after a change was seen and the loop was
\* left with max_count stalls counted.
C12_SettledPageEndsLoop ==
    /\ settled
    /\ spc = "done"
    /\ max_count = MaxThreshold
    /\ count = max_count
    /\ old_height = new_height

====
